---- MODULE Spec2Model ----
(***************************************************************************)
(* Model of src/src/App.jsx (JarvisX front end): the live-transcript       *)
(* assembler (interim / final transcription events, the 1500 ms pause      *)
(* timer, start / stop of a recording session) and the window click-       *)
(* through controller (toggle button, global-hotkey event, drag handlers). *)
(*                                                                         *)
(* React state is read by a handler from the closure of the render in      *)
(* which the handler was created: a value read after an `await` is the     *)
(* value captured when the handler was invoked, not the current one.       *)
(* Functional updates (setX(prev => ...)) read the current value.          *)
(*                                                                         *)
(* The two components share no state but the status line, so each is       *)
(* checked under its own specification (SpecTranscript, SpecWindow).       *)
(***************************************************************************)
EXTENDS Integers, Sequences, FiniteSets, TLC

\* ---------------------------------------------------------------- bounds
MaxFinal  == 2      \* cap on Len(finalized)
MaxCalls  == 1      \* handler invocations suspended at an await
MaxTimers == 2      \* distinct live setTimeout handles
MaxEvents == 2      \* undelivered 'click_through_toggled' events
MaxClicks == 2      \* suspended handler invocations in SpecRecording

Texts    == {"a", "b"}          \* non-empty transcription payloads
Payloads == Texts \cup {""}     \* event.payload, the empty text included

NoTimer == 0                    \* useRef(null): no handle stored yet
Unbound == "unbound"            \* an identifier with no declaration in scope

VARIABLES
    isRecording,        \* useState(false)
    finalized,          \* finalizedTranscript, useState([])
    inProgress,         \* inProgressTranscript, useState('')
    status,             \* useState('Ready.')
    clickThrough,       \* useState(true)
    speechPauseTimer,   \* speechPauseTimer.current: the last handle stored
    timers,             \* the pending setTimeout tasks: [id, text]
    prevClickThroughRef,\* binding of the identifier prevClickThroughRef
    console,            \* last console.error message ("" when none)
    rejected,           \* an async handler ended in an unhandled rejection
    calls,              \* handler invocations suspended at `await invoke(..)`
    dragging,           \* a mouse-down on the widget bar without its mouse-up
    backendLive,        \* backend: the live transcription is running
    backendCT,          \* backend: click-through state applied to the window
    ctEvents,           \* backend: emitted, undelivered click_through_toggled
    mounted,            \* the App component is mounted (its effects not cleaned up)
    setup,              \* setupListeners: the `await listen(..)` it is suspended at
    listeners,          \* the transcription events with a registered callback
    lastOp,             \* history: the operation performed by the last step
    utter,              \* history: the last interim text and its commits
    drag                \* history: clickThrough at mouse-down, and disturbance

vars == << isRecording, finalized, inProgress, status, clickThrough,
           speechPauseTimer, timers, prevClickThroughRef, console, rejected,
           calls, dragging, backendLive, backendCT, ctEvents,
           mounted, setup, listeners, lastOp, utter, drag >>

transcriptVars == << isRecording, finalized, inProgress, speechPauseTimer,
                     timers, backendLive, utter >>
windowVars     == << clickThrough, prevClickThroughRef, rejected, dragging,
                     backendCT, ctEvents, drag >>
lifecycleVars  == << mounted, setup, listeners >>

\* ------------------------------------------------------------- helpers
Idle == [op |-> "idle", phase |-> "idle", text |-> "", flag |-> FALSE,
         mutated |-> FALSE, seen |-> FALSE, val |-> FALSE]

Call(op, text, flag, mutated) ==
    [op |-> op, phase |-> "sent", text |-> text, flag |-> flag,
     mutated |-> mutated, seen |-> FALSE, val |-> FALSE]

Op(op, text, flag, ok) ==
    [op |-> op, text |-> text, flag |-> flag, ok |-> ok,
     mutated |-> FALSE, seen |-> FALSE, val |-> FALSE]

FreeSlots == {i \in DOMAIN calls : calls[i].op = "idle"}
FreeSlot  == CHOOSE i \in FreeSlots : \A j \in FreeSlots : i <= j

\* clearTimeout(handle): the task with that handle, if still pending, is
\* removed; a stale or null handle is a no-op.
ClearTimeout(ts, handle) == {t \in ts : t.id # handle}

\* setTimeout returns a handle distinct from every pending one.
FreeHandles(ts) == {h \in 1..MaxTimers : \A t \in ts : t.id # h}
NewHandle(ts)   == CHOOSE h \in FreeHandles(ts) : \A g \in FreeHandles(ts) : h <= g

\* React ignores a state update of a component that has been unmounted.
Set(new, cur) == IF mounted THEN new ELSE cur

\* history: one more entry equal to the last interim text was appended
Committed(text) ==
    IF text = utter.text /\ utter.commits < 2
    THEN [utter EXCEPT !.commits = @ + 1] ELSE utter

\* ---------------------------------------------------------------- Init
\* the state after the first render, with room for n suspended invocations
InitWith(n) ==
    /\ isRecording = FALSE
    /\ finalized = << >>
    /\ inProgress = ""
    /\ status = "Ready."
    /\ clickThrough = TRUE
    /\ speechPauseTimer = NoTimer
    /\ timers = {}
    /\ prevClickThroughRef = Unbound
    /\ console = ""
    /\ rejected = FALSE
    /\ calls = [i \in 1..n |-> Idle]
    /\ dragging = FALSE
    /\ backendLive = FALSE
    /\ backendCT = TRUE
    /\ ctEvents = << >>
    /\ mounted = TRUE
    /\ setup = "interim"
    /\ listeners = {}
    /\ lastOp = Op("init", "", FALSE, TRUE)
    /\ utter = [text |-> "", finalSince |-> FALSE, commits |-> 0]
    /\ drag = [pre |-> TRUE, clean |-> TRUE]

Init == InitWith(MaxCalls)

\* ------------------------------------------------ transcript assembler
\* The backend is not part of App.jsx: it emits transcription events only
\* while its live transcription runs (backendLive), and the listeners handle
\* them whatever isRecording is.
\* OnInterim without the clearTimeout of line 56
OnInterim_NoClearTimeout(text) ==
    /\ backendLive /\ "new_transcription" \in listeners
    /\ FreeHandles(timers) # {}
    /\ inProgress' = Set(text, inProgress)
    /\ LET h == NewHandle(timers)
       IN  /\ timers' = timers \cup {[id |-> h, text |-> text]}
           /\ speechPauseTimer' = h
    /\ utter' = [text |-> text, finalSince |-> FALSE, commits |-> 0]
    /\ lastOp' = Op("interim", text, timers # {}, TRUE)
    /\ UNCHANGED << isRecording, finalized, backendLive, status, console,
                    calls, windowVars, lifecycleVars >>

\* listen('new_transcription', ...) callback
OnInterim(text) ==
    /\ backendLive /\ "new_transcription" \in listeners
    /\ FreeHandles(ClearTimeout(timers, speechPauseTimer)) # {}
    /\ inProgress' = Set(text, inProgress)
    /\ LET cleared == ClearTimeout(timers, speechPauseTimer)
           h       == NewHandle(cleared)
       IN  /\ timers' = cleared \cup {[id |-> h, text |-> text]}
           /\ speechPauseTimer' = h
    /\ utter' = [text |-> text, finalSince |-> FALSE, commits |-> 0]
    /\ lastOp' = Op("interim", text, timers # {}, TRUE)
    /\ UNCHANGED << isRecording, finalized, backendLive, status, console,
                    calls, windowVars, lifecycleVars >>

\* the timer callback without the setInProgressTranscript('') of line 61
DebounceFire_KeepsInProgress(t) ==
    /\ t \in timers
    /\ t.text # "" => Len(finalized) < MaxFinal
    /\ timers' = timers \ {t}
    /\ IF t.text # ""
       THEN /\ finalized' = Set(Append(finalized, t.text), finalized)
            /\ utter' = Committed(t.text)
       ELSE UNCHANGED << finalized, utter >>
    /\ UNCHANGED inProgress
    /\ lastOp' = Op("debounce", t.text, t.text = inProgress, TRUE)
    /\ UNCHANGED << isRecording, speechPauseTimer, backendLive, status,
                    console, calls, windowVars, lifecycleVars >>

\* the timer callback without the `if (text)` of line 59
DebounceFire_NoTextGuard(t) ==
    /\ t \in timers
    /\ Len(finalized) < MaxFinal
    /\ timers' = timers \ {t}
    /\ finalized' = Set(Append(finalized, t.text), finalized)
    /\ inProgress' = Set("", inProgress)
    /\ utter' = Committed(t.text)
    /\ lastOp' = Op("debounce", t.text, t.text = inProgress, TRUE)
    /\ UNCHANGED << isRecording, speechPauseTimer, backendLive, status,
                    console, calls, windowVars, lifecycleVars >>

\* the setTimeout callback of the 'new_transcription' listener
DebounceFire(t) ==
    /\ t \in timers
    /\ t.text # "" => Len(finalized) < MaxFinal
    /\ timers' = timers \ {t}
    /\ IF t.text # ""
       THEN /\ finalized' = Set(Append(finalized, t.text), finalized)
            /\ inProgress' = Set("", inProgress)
            /\ utter' = Committed(t.text)
       ELSE UNCHANGED << finalized, inProgress, utter >>
    /\ lastOp' = Op("debounce", t.text, t.text = inProgress, TRUE)
    /\ UNCHANGED << isRecording, speechPauseTimer, backendLive, status,
                    console, calls, windowVars, lifecycleVars >>

\* OnFinal that drops a text equal to the entry committed last
OnFinal_DropsRepeat(text) ==
    /\ backendLive /\ "final_transcription" \in listeners
    /\ text # "" => Len(finalized) < MaxFinal
    /\ IF text # "" /\ (finalized = << >> \/ finalized[Len(finalized)] # text)
       THEN /\ finalized' = Set(Append(finalized, text), finalized)
            /\ utter' = [Committed(text) EXCEPT !.finalSince = TRUE]
       ELSE /\ UNCHANGED finalized
            /\ utter' = [utter EXCEPT !.finalSince = TRUE]
    /\ inProgress' = Set("", inProgress)
    /\ timers' = ClearTimeout(timers, speechPauseTimer)
    /\ lastOp' = Op("final", text, timers # {}, TRUE)
    /\ UNCHANGED << isRecording, speechPauseTimer, backendLive, status,
                    console, calls, windowVars, lifecycleVars >>

\* OnFinal without the clearTimeout of line 73
OnFinal_NoClearTimeout(text) ==
    /\ backendLive /\ "final_transcription" \in listeners
    /\ text # "" => Len(finalized) < MaxFinal
    /\ IF text # ""
       THEN /\ finalized' = Set(Append(finalized, text), finalized)
            /\ utter' = [Committed(text) EXCEPT !.finalSince = TRUE]
       ELSE /\ UNCHANGED finalized
            /\ utter' = [utter EXCEPT !.finalSince = TRUE]
    /\ inProgress' = Set("", inProgress)
    /\ lastOp' = Op("final", text, timers # {}, TRUE)
    /\ UNCHANGED << isRecording, speechPauseTimer, timers, backendLive, status,
                    console, calls, windowVars, lifecycleVars >>

\* listen('final_transcription', ...) callback
OnFinal(text) ==
    /\ backendLive /\ "final_transcription" \in listeners
    /\ text # "" => Len(finalized) < MaxFinal
    /\ IF text # ""
       THEN /\ finalized' = Set(Append(finalized, text), finalized)
            /\ utter' = [Committed(text) EXCEPT !.finalSince = TRUE]
       ELSE /\ UNCHANGED finalized
            /\ utter' = [utter EXCEPT !.finalSince = TRUE]
    /\ inProgress' = Set("", inProgress)
    /\ timers' = ClearTimeout(timers, speechPauseTimer)
    /\ lastOp' = Op("final", text, timers # {}, TRUE)
    /\ UNCHANGED << isRecording, speechPauseTimer, backendLive, status,
                    console, calls, windowVars, lifecycleVars >>

\* handleToggleRecording, invoked by either Listen / Stop button.  The
\* branch is chosen by the isRecording of the render that built the handler.
\* Start branch, up to `await invoke('start_live_transcription')` (the two
\* awaits of getResourcePaths touch no state and are part of the round trip).
StartRecordingClick ==
    /\ mounted /\ ~isRecording
    /\ FreeSlots # {}
    /\ status' = "Recording..."
    /\ finalized' = << >>
    /\ inProgress' = ""
    /\ calls' = [calls EXCEPT ![FreeSlot] =
                    Call("start", "", FALSE, finalized # << >> \/ inProgress # "")]
    /\ lastOp' = Op("startClick", "", timers # {}, TRUE)
    /\ UNCHANGED << isRecording, speechPauseTimer, timers, backendLive, utter,
                    console, windowVars, lifecycleVars >>

\* Stop branch, up to `await invoke('stop_live_transcription')`: nothing is
\* written, and inProgressTranscript of this render is what line 128 reads.
StopRecordingClick ==
    /\ mounted /\ isRecording
    /\ FreeSlots # {}
    /\ calls' = [calls EXCEPT ![FreeSlot] = Call("stop", inProgress, FALSE, FALSE)]
    /\ lastOp' = Op("stopClick", inProgress, timers # {}, TRUE)
    /\ UNCHANGED << transcriptVars, status, console, windowVars, lifecycleVars >>

\* backend command start_live_transcription (or resolveResource) completes
BackendStartLive(i, ok) ==
    /\ calls[i].op = "start" /\ calls[i].phase = "sent"
    /\ calls' = [calls EXCEPT ![i].phase = IF ok THEN "ok" ELSE "err"]
    /\ backendLive' = (IF ok THEN TRUE ELSE backendLive)
    /\ lastOp' = Op("backendStart", "", FALSE, ok)
    /\ UNCHANGED << isRecording, finalized, inProgress, speechPauseTimer,
                    timers, utter, status, console, windowVars, lifecycleVars >>

\* backend command stop_live_transcription completes
BackendStopLive(i, ok) ==
    /\ calls[i].op = "stop" /\ calls[i].phase = "sent"
    /\ calls' = [calls EXCEPT ![i].phase = IF ok THEN "ok" ELSE "err"]
    /\ backendLive' = (IF ok THEN FALSE ELSE backendLive)
    /\ lastOp' = Op("backendStop", "", FALSE, ok)
    /\ UNCHANGED << isRecording, finalized, inProgress, speechPauseTimer,
                    timers, utter, status, console, windowVars, lifecycleVars >>

\* handleToggleRecording start branch after the await: line 117, or the catch
StartRecordingReturn(i) ==
    /\ calls[i].op = "start" /\ calls[i].phase \in {"ok", "err"}
    /\ IF calls[i].phase = "ok"
       THEN /\ isRecording' = Set(TRUE, isRecording)
            /\ UNCHANGED << status, console >>
       ELSE /\ status' = Set("Error", status)
            /\ console' = "error"
            /\ UNCHANGED isRecording
    /\ calls' = [calls EXCEPT ![i] = Idle]
    /\ lastOp' = [Op("startReturn", "", FALSE, calls[i].phase = "ok")
                    EXCEPT !.mutated = calls[i].mutated]
    /\ UNCHANGED << finalized, inProgress, speechPauseTimer, timers,
                    backendLive, utter, windowVars, lifecycleVars >>

\* handleToggleRecording stop branch after the await: lines 128-133, or the
\* catch.  calls[i].text is the inProgressTranscript the handler closed over.
StopRecordingReturn(i) ==
    /\ calls[i].op = "stop" /\ calls[i].phase \in {"ok", "err"}
    /\ (calls[i].phase = "ok" /\ calls[i].text # "") => Len(finalized) < MaxFinal
    /\ IF calls[i].phase = "ok"
       THEN /\ IF calls[i].text # ""
               THEN /\ finalized' = Set(Append(finalized, calls[i].text), finalized)
                    /\ utter' = Committed(calls[i].text)
               ELSE UNCHANGED << finalized, utter >>
            /\ inProgress' = Set("", inProgress)
            /\ status' = Set("Ready.", status)
            /\ isRecording' = Set(FALSE, isRecording)
            /\ UNCHANGED console
       ELSE /\ status' = Set("Error", status)
            /\ console' = "error"
            /\ UNCHANGED << finalized, utter, inProgress, isRecording >>
    /\ calls' = [calls EXCEPT ![i] = Idle]
    /\ lastOp' = Op("stopReturn", calls[i].text, timers # {}, calls[i].phase = "ok")
    /\ UNCHANGED << speechPauseTimer, timers, backendLive, windowVars, lifecycleVars >>

\* setupListeners (lines 50-75) runs from the mount effect; each
\* `await listen(..)` resolves once the callback is registered, and only then
\* is the returned unlisten function stored in unlistenInterim / unlistenFinal.
ListenInterimRegistered ==
    /\ setup = "interim"
    /\ setup' = "final"
    /\ listeners' = listeners \cup {"new_transcription"}
    /\ lastOp' = Op("listenInterim", "", mounted, TRUE)
    /\ UNCHANGED << transcriptVars, status, console, calls, windowVars, mounted >>

ListenFinalRegistered ==
    /\ setup = "final"
    /\ setup' = "done"
    /\ listeners' = listeners \cup {"final_transcription"}
    /\ lastOp' = Op("listenFinal", "", mounted, TRUE)
    /\ UNCHANGED << transcriptVars, status, console, calls, windowVars, mounted >>

\* the cleanup of the mount effect (lines 79-83).  unlistenInterim holds a
\* function once the first listen has resolved and is undefined before:
\*  - a function has no `then`, so line 80 throws a TypeError and lines 81-82
\*    are not run: nothing is unsubscribed and the timer is not cleared;
\*  - while it is undefined (then unlistenFinal is undefined too) lines 80-81
\*    are skipped, line 82 clears the timer, and setupListeners goes on to
\*    register both callbacks afterwards.
Teardown ==
    /\ mounted
    /\ mounted' = FALSE
    /\ IF setup # "interim"
       THEN /\ console' = "TypeError"
            /\ UNCHANGED timers
       ELSE /\ timers' = ClearTimeout(timers, speechPauseTimer)
            /\ UNCHANGED console
    /\ lastOp' = Op("teardown", "", setup # "interim", setup = "interim")
    /\ UNCHANGED << isRecording, finalized, inProgress, speechPauseTimer,
                    backendLive, utter, status, calls, windowVars,
                    setup, listeners >>

\* Array.prototype.join('\n'): the elements separated by a newline
RECURSIVE Join(_)
Join(lines) ==
    IF lines = << >> THEN ""
    ELSE IF Len(lines) = 1 THEN lines[1]
    ELSE lines[1] \o "\n" \o Join(Tail(lines))

\* the displayed transcript (line 192; handleAnalyze builds the same string)
transcript == Join(Append(finalized, inProgress))

SpecTranscriptNext ==
    \/ \E text \in Payloads : OnInterim(text)
    \/ \E text \in Payloads : OnFinal(text)
    \/ \E t \in timers : DebounceFire(t)
    \/ StartRecordingClick
    \/ StopRecordingClick
    \/ \E i \in DOMAIN calls, ok \in BOOLEAN : BackendStartLive(i, ok)
    \/ \E i \in DOMAIN calls, ok \in BOOLEAN : BackendStopLive(i, ok)
    \/ \E i \in DOMAIN calls : StartRecordingReturn(i)
    \/ \E i \in DOMAIN calls : StopRecordingReturn(i)
    \/ ListenInterimRegistered
    \/ ListenFinalRegistered

SpecTranscript == Init /\ [][SpecTranscriptNext]_vars

\* A pending setTimeout task that is not cleared runs after its delay.
SpecTranscriptFair ==
    SpecTranscript /\ WF_vars(\E t \in timers : DebounceFire(t))

\* the transcript assembler with several Listen / Stop clicks in flight
SpecRecording == InitWith(MaxClicks) /\ [][SpecTranscriptNext]_vars

\* the transcript assembler together with the unmount of the component
SpecLifecycleNext ==
    \/ SpecTranscriptNext
    \/ Teardown

SpecLifecycle == Init /\ [][SpecLifecycleNext]_vars

\* ------------------------------------------- window interaction controller
StatusOf(ct) == IF ct THEN "Window is click-through." ELSE "Window is interactive."

\* history: an event or a toggle acted on clickThrough during a drag gesture
Disturbed == IF dragging THEN [drag EXCEPT !.clean = FALSE] ELSE drag

\* handleToggleClickThrough up to `await invoke('toggle_clickthrough', ..)`:
\* newState is computed from the clickThrough of the current render.
ToggleClick ==
    /\ FreeSlots # {}
    /\ calls' = [calls EXCEPT ![FreeSlot] = Call("toggle", "", ~clickThrough, FALSE)]
    /\ drag' = Disturbed
    /\ lastOp' = Op("toggleClick", "", ~clickThrough, TRUE)
    /\ UNCHANGED << transcriptVars, lifecycleVars, status, console, clickThrough,
                    prevClickThroughRef, rejected, dragging, backendCT, ctEvents >>

\* backend command toggle_clickthrough { enable } completes
BackendSetClickThrough(i, ok) ==
    /\ calls[i].op = "toggle" /\ calls[i].phase = "sent"
    /\ calls' = [calls EXCEPT ![i].phase = IF ok THEN "ok" ELSE "err"]
    /\ backendCT' = (IF ok THEN calls[i].flag ELSE backendCT)
    /\ lastOp' = Op("backendSet", "", calls[i].flag, ok)
    /\ UNCHANGED << transcriptVars, lifecycleVars, status, console, clickThrough,
                    prevClickThroughRef, rejected, dragging, ctEvents, drag >>

\* handleToggleClickThrough after the await: lines 184-185, or the catch
ToggleReturn(i) ==
    /\ calls[i].op = "toggle" /\ calls[i].phase \in {"ok", "err"}
    /\ IF calls[i].phase = "ok"
       THEN /\ clickThrough' = calls[i].flag
            /\ status' = StatusOf(calls[i].flag)
            /\ UNCHANGED console
       ELSE /\ console' = "Failed to toggle clickthrough:"
            /\ UNCHANGED << clickThrough, status >>
    /\ calls' = [calls EXCEPT ![i] = Idle]
    /\ drag' = Disturbed
    /\ lastOp' = [Op("toggleReturn", "", calls[i].flag, calls[i].phase = "ok")
                    EXCEPT !.seen = calls[i].seen, !.val = calls[i].val]
    /\ UNCHANGED << transcriptVars, lifecycleVars, prevClickThroughRef, rejected, dragging,
                    backendCT, ctEvents >>

\* backend: the global hotkey flips the applied state and emits the event
Hotkey ==
    /\ Len(ctEvents) < MaxEvents
    /\ backendCT' = ~backendCT
    /\ ctEvents' = Append(ctEvents, ~backendCT)
    /\ lastOp' = Op("hotkey", "", ~backendCT, TRUE)
    /\ UNCHANGED << transcriptVars, lifecycleVars, status, console, calls, clickThrough,
                    prevClickThroughRef, rejected, dragging, drag >>

\* listen('click_through_toggled', ...) callback, events in arrival order
OnClickThroughToggled ==
    /\ ctEvents # << >>
    /\ LET newState == Head(ctEvents)
       IN  /\ clickThrough' = newState
           /\ status' = StatusOf(newState)
           /\ calls' = [i \in DOMAIN calls |->
                          IF calls[i].op = "toggle"
                          THEN [calls[i] EXCEPT !.seen = TRUE, !.val = newState]
                          ELSE calls[i]]
           /\ lastOp' = [Op("ctEvent", "", newState, TRUE) EXCEPT
                           !.seen = \E i \in DOMAIN calls : calls[i].op = "toggle"]
    /\ ctEvents' = Tail(ctEvents)
    /\ drag' = Disturbed
    /\ UNCHANGED << transcriptVars, lifecycleVars, console, prevClickThroughRef, rejected,
                    dragging, backendCT >>

\* startDragWithClickThroughHandling (onMouseDown / onTouchStart).  App.jsx
\* declares no prevClickThroughRef (lines 201, 221 and 229 are its only
\* occurrences), so evaluating line 201 throws a ReferenceError inside the
\* try: lines 203-211 are never reached and the catch logs the error.
\* In lastOp, seen says that the request of line 205 was sent and ok that
\* appWindow.startDragging() of line 211 was reached: neither happens.
StartDrag ==
    /\ ~dragging
    /\ prevClickThroughRef = Unbound
    /\ dragging' = TRUE
    /\ console' = "Drag start error:"
    /\ drag' = [pre |-> clickThrough, clean |-> TRUE]
    /\ lastOp' = Op("startDrag", "", clickThrough, FALSE)
    /\ UNCHANGED << transcriptVars, lifecycleVars, status, calls, clickThrough,
                    prevClickThroughRef, rejected, backendCT, ctEvents >>

\* StopDrag that re-enables click-through without consulting the saved value
StopDrag_AlwaysRestores ==
    /\ dragging
    /\ dragging' = FALSE
    /\ clickThrough' = TRUE
    /\ status' = StatusOf(TRUE)
    /\ lastOp' = Op("stopDrag", "", clickThrough, TRUE)
    /\ UNCHANGED << transcriptVars, lifecycleVars, console, calls, rejected,
                    prevClickThroughRef, backendCT, ctEvents, drag >>

\* stopDragRestoreClickThrough (onMouseUp / onTouchEnd): line 221 throws the
\* same ReferenceError, the catch logs it, and the assignment in the finally
\* block (line 229) throws again, which rejects the handler's promise.
StopDrag ==
    /\ dragging
    /\ prevClickThroughRef = Unbound
    /\ dragging' = FALSE
    /\ console' = "Restore click-through error:"
    /\ rejected' = TRUE
    /\ lastOp' = Op("stopDrag", "", clickThrough, FALSE)
    /\ UNCHANGED << transcriptVars, lifecycleVars, status, calls, clickThrough,
                    prevClickThroughRef, backendCT, ctEvents, drag >>

SpecWindowNext ==
    \/ ToggleClick
    \/ \E i \in DOMAIN calls, ok \in BOOLEAN : BackendSetClickThrough(i, ok)
    \/ \E i \in DOMAIN calls : ToggleReturn(i)
    \/ Hotkey
    \/ OnClickThroughToggled
    \/ StartDrag
    \/ StopDrag

SpecWindow == Init /\ [][SpecWindowNext]_vars
\* ===================================================================== claims
Null == "null"

\* C1: processing a final_transcription event with non-empty text appends
\* exactly that one entry to finalized, empties inProgress and leaves no
\* debounce task pending; from then until the next interim event no debounce
\* task exists that could fire and append for that utterance.
C1_FinalCommitsOnceAndCancels ==
    [][ /\ (utter'.finalSince => timers' = {})
        /\ (lastOp'.op = "final" /\ lastOp'.text # "") =>
              /\ finalized' = Append(finalized, lastOp'.text)
              /\ inProgress' = ""
              /\ timers' = {} ]_vars

\* a non-empty final event was handled while a debounce task was pending
C1_Witness ==
    /\ lastOp.op = "final" /\ lastOp.text # "" /\ lastOp.flag
    /\ timers = {} /\ inProgress = ""
    /\ Len(finalized) >= 1 /\ finalized[Len(finalized)] = lastOp.text

\* C2: while the last interim text has seen no final event, that text is
\* appended to finalized at most once, whatever else the component does.
C2_InterimCommittedAtMostOnce ==
    (utter.text # "" /\ ~utter.finalSince) => utter.commits <= 1

\* C3: when a stop completes no debounce task is left pending, and a debounce
\* callback appends only if the text it captured is still the inProgress value.
C3_StopCancelsDebounce ==
    [][ /\ (lastOp'.op = "stopReturn" /\ lastOp'.ok) => timers' = {}
        /\ (lastOp'.op = "debounce" /\ finalized' # finalized) => lastOp'.flag ]_vars

\* C4: a successful stop appends the inProgress value current at the flush
\* (when non-empty) and nothing else, and then empties inProgress.
C4_StopFlushesCurrentInProgress ==
    [][ (lastOp'.op = "stopReturn" /\ lastOp'.ok) =>
          /\ finalized' = (IF inProgress # "" THEN Append(finalized, inProgress)
                           ELSE finalized)
          /\ inProgress' = "" ]_vars

\* C5: right after the reset at session start finalized is empty, inProgress
\* is empty and no debounce task is pending.
C5_ResetLeavesNothingPending ==
    lastOp.op = "startClick" =>
        (finalized = << >> /\ inProgress = "" /\ timers = {})

\* C6: a drag gesture during which no toggle and no backend toggle event
\* acted ends with clickThrough equal to its value at the mouse-down.
C6_DragRoundTripRestores ==
    (lastOp.op = "stopDrag" /\ drag.clean) => clickThrough = drag.pre

\* an undisturbed gesture ended, started from the interactive state
C6_Witness ==
    /\ lastOp.op = "stopDrag" /\ drag.clean /\ ~dragging
    /\ drag.pre = FALSE /\ clickThrough = FALSE

\* C7: whatever happened during the gesture, after the mouse-up clickThrough
\* equals its value at the mouse-down.
C7_EndDragRestoresPrior ==
    lastOp.op = "stopDrag" => clickThrough = drag.pre

\* C8: when a toggle and a backend toggle event processed after the toggle
\* was invoked have both completed, and the event's payload differs from the
\* toggle's target, clickThrough is the event's payload.
C8_BackendEventWinsOverToggle ==
    /\ (lastOp.op = "toggleReturn" /\ lastOp.seen /\ lastOp.val # lastOp.flag)
          => clickThrough = lastOp.val
    /\ (lastOp.op = "ctEvent" /\ ~lastOp.seen) => clickThrough = lastOp.flag

\* C9: the saved pre-drag value is held only during a drag gesture, and after
\* every mouse-up it is null.
C9_PrevClearedAfterDrag ==
    /\ prevClickThroughRef \in {"true", "false"} => dragging
    /\ lastOp.op = "stopDrag" => prevClickThroughRef = Null

\* C10: an operation whose backend call fails changes none of finalized,
\* inProgress, isRecording and clickThrough, neither before nor after the call.
C10_FailedCallLeavesState ==
    [][ (lastOp'.op \in {"startReturn", "stopReturn", "toggleReturn"} /\ ~lastOp'.ok) =>
          /\ ~lastOp'.mutated
          /\ UNCHANGED << finalized, inProgress, isRecording, clickThrough >> ]_vars
\* C11: a transcription event with an empty payload changes none of
\* finalized, inProgress and the pending debounce task.
C11_EmptyPayloadIgnored ==
    [][ (lastOp'.op \in {"interim", "final"} /\ lastOp'.text = "") =>
          UNCHANGED << finalized, inProgress, timers >> ]_vars

\* C12: finalized never contains an empty string.
C12_NoEmptyFinalized ==
    \A k \in 1..Len(finalized) : finalized[k] # ""

\* a timer that captured an empty text fired while finalized had entries
C12_Witness ==
    /\ lastOp.op = "debounce" /\ lastOp.text = ""
    /\ Len(finalized) >= 1

\* C13: at most one debounce task is pending.
C13_AtMostOneDebounce ==
    Cardinality(timers) <= 1

\* an interim event arrived while the task of the previous one was pending
C13_Witness ==
    /\ lastOp.op = "interim" /\ lastOp.flag
    /\ Cardinality(timers) = 1
    /\ \A t \in timers : t.id = speechPauseTimer /\ t.text = inProgress
\* C14: the displayed transcript is the finalized lines followed by
\* inProgress as a last line when inProgress is non-empty and by nothing when
\* it is empty (no empty trailing line).
C14_RenderOmitsEmptyTrailingLine ==
    transcript = Join(IF inProgress = "" THEN finalized
                      ELSE Append(finalized, inProgress))
\* C17: a final event carrying the text that the debounce callback has just
\* committed appends it again: finalized then ends with two equal entries.
C17_LateFinalDuplicates ==
    [][ ( /\ lastOp.op = "debounce" /\ lastOp.text # ""
          /\ utter.text = lastOp.text
          /\ lastOp'.op = "final" /\ lastOp'.text = lastOp.text ) =>
        ( /\ Len(finalized') = Len(finalized) + 1
          /\ Len(finalized') >= 2
          /\ finalized'[Len(finalized')] = lastOp.text
          /\ finalized'[Len(finalized') - 1] = lastOp.text ) ]_vars

\* interim(t), debounce fire and final(t) in the session being started
C17_Witness ==
    /\ lastOp.op = "final" /\ lastOp.text # "" /\ ~lastOp.flag
    /\ utter.text = lastOp.text /\ utter.commits = 2
    /\ finalized = << lastOp.text, lastOp.text >>
    /\ ~isRecording /\ \E i \in DOMAIN calls : calls[i].op = "start"
\* C16: an interim text held in inProgress is eventually committed (inProgress
\* empty and the text in finalized), unless a final event or an interim event
\* with another text arrives first; MaxFinal is where the model stops appending.
C16_InterimEventuallyFinalized ==
    \A t \in Texts :
        (inProgress = t) ~>
            \/ (inProgress = "" /\ \E k \in 1..Len(finalized) : finalized[k] = t)
            \/ utter.text # t
            \/ utter.finalSince
            \/ Len(finalized) >= MaxFinal

\* the debounce callback committed the interim text with no event in between
C16_Witness ==
    /\ lastOp.op = "debounce" /\ lastOp.text # "" /\ lastOp.flag
    /\ utter.text = lastOp.text /\ ~utter.finalSince /\ utter.commits = 1
    /\ inProgress = "" /\ finalized[Len(finalized)] = lastOp.text
    /\ Len(finalized) < MaxFinal
\* C15: once the component has been torn down no transcription event is
\* handled and no debounce task fires, the teardown leaves no task pending,
\* and when setupListeners has finished no subscription is left.
C15_TeardownReleases ==
    [][ ~mounted' =>
          /\ lastOp'.op \notin {"interim", "final", "debounce"}
          /\ lastOp'.op = "teardown" => timers' = {}
          /\ setup' = "done" => listeners' = {} ]_vars
C19_LocalMatchesBackend ==
    ( /\ \A i \in DOMAIN calls : calls[i].op = "idle"
      /\ ctEvents = << >> ) => clickThrough = backendCT
\* C20: at most one start request is outstanding at a time, and with nothing
\* in flight isRecording is true only while the backend's transcription that
\* a start brought up has not been stopped.
C20_SingleStartInFlight ==
    /\ Cardinality({i \in DOMAIN calls : calls[i].op = "start"}) <= 1
    /\ (isRecording /\ \A i \in DOMAIN calls : calls[i].op = "idle") => backendLive
====
